---- MODULE Spec2Model ----
(***************************************************************************)
(* ContentSearch (src/src/main.rs): a literal multi-pattern content search *)
(* tool.  main parses the command line and calls perform_search, which     *)
(* enumerates the entries of a directory, queues the files that pass the   *)
(* filters, and then scans each queued file with an Aho-Corasick automaton.*)
(*                                                                         *)
(* Strings (arguments, paths, patterns, file contents) are sequences of    *)
(* one-character strings, so that ends_with, split and the byte search are *)
(* computed on the characters.                                             *)
(***************************************************************************)
EXTENDS Integers, Sequences, FiniteSets, TLC

VARIABLES
    pc,               \* position of the program: start, queueing, scanning, done, exit, panic
    caller,           \* "main": perform_search called by main; "direct": called as a function
    args,             \* env::args() (main only)
    directory,        \* perform_search parameter
    file_extensions,  \* perform_search parameter
    patterns,         \* perform_search parameter
    max_file_size,    \* perform_search parameter
    max_files,        \* perform_search parameter
    queued_files,     \* Vec<String> of paths
    matched_files,    \* search_results.matched_files
    skipped_files,    \* search_results.skipped_files
    unmatched_files,  \* search_results.unmatched_files
    index,            \* index of the scanning loop (number of queued files processed)
    result,           \* "none", "Ok" or "Err": what perform_search returned
    entries,          \* log: the directory entries the glob iterator has yielded
    cut_off,          \* log: TRUE when the queueing loop was left by its break
    io_log,           \* log: the File::open / read_to_end results seen by the scanning loop
    automaton_builds  \* log: number of AhoCorasick::new calls

vars == <<pc, caller, args, directory, file_extensions, patterns, max_file_size,
          max_files, queued_files, matched_files, skipped_files, unmatched_files,
          index, result, entries, cut_off, io_log, automaton_builds>>

\* Largest number of directory entries the glob iterator yields in one run.
MaxEntries == 3

(***************************************************************************)
(* String helpers (Rust std)                                               *)
(***************************************************************************)

\* str::ends_with
EndsWith(s, suffix) ==
    /\ Len(suffix) <= Len(s)
    /\ SubSeq(s, Len(s) - Len(suffix) + 1, Len(s)) = suffix

\* str::split(":"), left to right; cur is the piece being collected.
RECURSIVE SplitFrom(_, _, _)
SplitFrom(s, i, cur) ==
    IF i > Len(s) THEN <<cur>>
    ELSE IF s[i] = ":" THEN <<cur>> \o SplitFrom(s, i + 1, <<>>)
    ELSE SplitFrom(s, i + 1, Append(cur, s[i]))

SplitColon(s) == SplitFrom(s, 1, <<>>)

Digits == {"0", "1", "2", "3", "4", "5", "6", "7", "8", "9"}

DigitVal(c) ==
    CASE c = "0" -> 0 [] c = "1" -> 1 [] c = "2" -> 2 [] c = "3" -> 3 [] c = "4" -> 4
      [] c = "5" -> 5 [] c = "6" -> 6 [] c = "7" -> 7 [] c = "8" -> 8 [] c = "9" -> 9

RECURSIVE DigitsValue(_, _, _)
DigitsValue(s, i, acc) ==
    IF i > Len(s) THEN acc ELSE DigitsValue(s, i + 1, acc * 10 + DigitVal(s[i]))

\* str::parse::<u64>() / ::<usize>(): an optional '+', then one or more decimal
\* digits; -1 stands for Err.  (The arguments of the model have at most two
\* digits, so the overflow error cannot occur.)
ParseUnsigned(s) ==
    LET body == IF Len(s) > 0 /\ s[1] = "+" THEN SubSeq(s, 2, Len(s)) ELSE s
    IN  IF Len(body) = 0 \/ \E i \in 1..Len(body) : body[i] \notin Digits
        THEN -1
        ELSE DigitsValue(body, 1, 0)

(***************************************************************************)
(* main: the argument loop                                                 *)
(***************************************************************************)

ARG_H   == <<"-", "h">>
ARG_SSK == <<"-", "s", "s", "k">>
ARG_SUM == <<"-", "s", "u", "m">>
ARG_MFS == <<"-", "m", "f", "s">>
ARG_MFQ == <<"-", "m", "f", "q">>
ARG_DIR == <<"-", "d", "i", "r">>
ARG_EXT == <<"-", "e", "x", "t">>
ARG_SPT == <<"-", "s", "p", "t">>

\* The locals of main before the loop.
InitialConfig ==
    [ status               |-> "run",
      target_directory     |-> <<".">>,
      file_extensions      |-> <<>>,
      search_patterns      |-> <<>>,
      maximum_file_size    |-> 0,
      maximum_files_queued |-> 0,
      show_unmatched       |-> FALSE,
      show_skipped         |-> FALSE ]

\* The loop over the peekable argument iterator; i is the next argument to take.
\* A flag's value is only peeked, so it is itself taken as the next argument.
RECURSIVE ParseLoop(_, _, _)
ParseLoop(argv, i, cfg) ==
    IF i > Len(argv) THEN cfg
    ELSE
      LET argument == argv[i]
          next_argument_present == i + 1 <= Len(argv)
          next_argument == IF next_argument_present THEN argv[i + 1] ELSE argument
      IN  CASE argument = ARG_H -> [cfg EXCEPT !.status = "help"]
            [] argument = ARG_SSK ->
                 ParseLoop(argv, i + 1, [cfg EXCEPT !.show_skipped = TRUE])
            [] argument = ARG_SUM ->
                 ParseLoop(argv, i + 1, [cfg EXCEPT !.show_unmatched = TRUE])
            [] argument = ARG_MFS ->
                 IF ~next_argument_present THEN ParseLoop(argv, i + 1, cfg)
                 ELSE IF ParseUnsigned(next_argument) = -1
                      THEN [cfg EXCEPT !.status = "panic"]
                      ELSE ParseLoop(argv, i + 1,
                             [cfg EXCEPT !.maximum_file_size = ParseUnsigned(next_argument)])
            [] argument = ARG_MFQ ->
                 IF ~next_argument_present THEN ParseLoop(argv, i + 1, cfg)
                 ELSE IF ParseUnsigned(next_argument) = -1
                      THEN [cfg EXCEPT !.status = "panic"]
                      ELSE ParseLoop(argv, i + 1,
                             [cfg EXCEPT !.maximum_files_queued = ParseUnsigned(next_argument)])
            [] argument = ARG_DIR ->
                 IF ~next_argument_present THEN ParseLoop(argv, i + 1, cfg)
                 ELSE ParseLoop(argv, i + 1, [cfg EXCEPT !.target_directory = next_argument])
            [] argument = ARG_EXT ->
                 IF ~next_argument_present THEN ParseLoop(argv, i + 1, cfg)
                 ELSE ParseLoop(argv, i + 1,
                        [cfg EXCEPT !.file_extensions = @ \o SplitColon(next_argument)])
            [] argument = ARG_SPT ->
                 IF ~next_argument_present THEN ParseLoop(argv, i + 1, cfg)
                 ELSE [cfg EXCEPT !.search_patterns = @ \o SubSeq(argv, i + 1, Len(argv))]
            [] OTHER -> ParseLoop(argv, i + 1, cfg)

ParseArgs(argv) == ParseLoop(argv, 1, InitialConfig)

(***************************************************************************)
(* The file system below the root: the paths the glob iterator can yield   *)
(* and the bytes of each file.  InvalidByte stands for a byte sequence     *)
(* that is not UTF-8, for which PathBuf::to_str returns None.              *)
(***************************************************************************)

InvalidByte == "?"

PathA == <<"a", ".", "r", "s">>
PathB == <<"a", "x", "r", "s">>
PathC == <<"b", ".", "c">>
PathD == <<"c", InvalidByte>>

Paths == {PathA, PathB, PathC, PathD}

\* The bytes File::read_to_end delivers for a path.
FileContents(path) ==
    CASE path = PathA -> <<"x", "x", "a", "b", "c", "x", "x">>
      [] path = PathB -> <<"a", "b">>
      [] path = PathC -> <<"b", "c", "b", "c">>
      [] OTHER        -> <<>>

\* fs::metadata(..).len() of an existing file.
FileSize(path) == Len(FileContents(path))

\* PathBuf::to_str is Some exactly for a valid UTF-8 path.
ToStrOk(path) == \A i \in 1..Len(path) : path[i] # InvalidByte

Unknown == <<"U", "n", "k", "n", "o", "w", "n">>

\* One item of the glob iterator: a traversal error, a path that is not a
\* regular file, or a regular file (with the result fs::metadata will give).
ErrorEntry == [kind |-> "error", path |-> <<>>, metadata_ok |-> TRUE]
DirEntry   == [kind |-> "dir", path |-> <<>>, metadata_ok |-> TRUE]
FileEntry(path, metadata_ok) == [kind |-> "file", path |-> path, metadata_ok |-> metadata_ok]

\* The paths already yielded; glob yields each path once.
YieldedPaths(log) == {log[i].path : i \in {j \in 1..Len(log) : log[j].kind = "file"}}

NextEntries(log) ==
    {ErrorEntry, DirEntry}
      \cup {FileEntry(p, m) : p \in Paths \ YieldedPaths(log), m \in BOOLEAN}

(***************************************************************************)
(* perform_search: set-up                                                  *)
(***************************************************************************)

\* let glob_pattern = ...
GlobPattern(dir) ==
    IF EndsWith(dir, <<"/">>) \/ EndsWith(dir, <<"\\">>)
    THEN dir \o <<"*", "*", "/", "*">>
    ELSE dir \o <<"/", "*", "*", "/", "*">>

\* Index of the first "]" of chars at or after position from, 0 if none.
FirstClose(chars, from) ==
    LET hits == {j \in from..Len(chars) : chars[j] = "]"}
    IN  IF hits = {} THEN 0 ELSE CHOOSE j \in hits : \A k \in hits : j <= k

\* glob(pattern) is Ok: glob::Pattern::new accepts the pattern.  Of its errors
\* the model covers the invalid character range, a "[" that no "]" closes; the
\* directories of the model hold no "*", so the wildcard errors do not arise.
RECURSIVE GlobValidFrom(_, _)
GlobValidFrom(chars, i) ==
    IF i > Len(chars) THEN TRUE
    ELSE IF chars[i] # "[" THEN GlobValidFrom(chars, i + 1)
    ELSE IF i + 3 <= Len(chars) /\ chars[i + 1] = "!" /\ FirstClose(chars, i + 3) # 0
         THEN GlobValidFrom(chars, FirstClose(chars, i + 3) + 1)
    ELSE IF i + 2 <= Len(chars) /\ chars[i + 1] # "!" /\ FirstClose(chars, i + 2) # 0
         THEN GlobValidFrom(chars, FirstClose(chars, i + 2) + 1)
    ELSE FALSE

GlobOk(dir) == GlobValidFrom(GlobPattern(dir), 1)

(***************************************************************************)
(* perform_search: the candidate filter                                    *)
(***************************************************************************)

\* Variant of ExtensionAdmits that compares the extension without its first
\* character (the dot).
ExtensionAdmits_NoDot(path, exts) ==
    \/ Len(exts) = 0
    \/ \E i \in 1..Len(exts) :
          EndsWith(path, IF Len(exts[i]) > 0 THEN Tail(exts[i]) ELSE exts[i])

\* extensions_matter && !file_extensions.iter().any(|e| path.ends_with(e)), negated
ExtensionAdmits(path, exts) ==
    \/ Len(exts) = 0
    \/ \E i \in 1..Len(exts) : EndsWith(path, exts[i])

\* Variant of SizeAdmits with a strict comparison.
SizeAdmits_Strict(file_size, max_size) ==
    \/ ~(max_size > 0)
    \/ (max_size > 0 /\ file_size < max_size)

\* !file_size_matters || (file_size_matters && file_size <= *max_file_size)
SizeAdmits(file_size, max_size) ==
    \/ ~(max_size > 0)
    \/ (max_size > 0 /\ file_size <= max_size)

\* file_count_matters && queued_files.len() > *max_files
CutoffReached(queued_len, limit) ==
    limit > 0 /\ queued_len > limit

\* Variant of FilterOutcome that leaves the loop iteration on an extension
\* mismatch without recording the file.
FilterOutcome_DropsMismatch(path, metadata_ok, queued_len, exts, max_size, limit) ==
    IF ~ToStrOk(path) THEN "PathEncoding"
    ELSE IF ~metadata_ok THEN "Metadata"
    ELSE IF CutoffReached(queued_len, limit) THEN "Break"
    ELSE IF ~ExtensionAdmits(path, exts) THEN "NotFile"
    ELSE IF SizeAdmits(FileSize(path), max_size) THEN "Queue"
    ELSE "Size"

\* Variant of FilterOutcome that applies the size rule before the extension rule.
FilterOutcome_SizeFirst(path, metadata_ok, queued_len, exts, max_size, limit) ==
    IF ~ToStrOk(path) THEN "PathEncoding"
    ELSE IF ~metadata_ok THEN "Metadata"
    ELSE IF CutoffReached(queued_len, limit) THEN "Break"
    ELSE IF ~SizeAdmits(FileSize(path), max_size) THEN "Size"
    ELSE IF ~ExtensionAdmits(path, exts) THEN "Extension"
    ELSE "Queue"

\* What the body of the queueing loop does with one regular file.
FilterOutcome(path, metadata_ok, queued_len, exts, max_size, limit) ==
    IF ~ToStrOk(path) THEN "PathEncoding"
    ELSE IF ~metadata_ok THEN "Metadata"
    ELSE IF CutoffReached(queued_len, limit) THEN "Break"
    ELSE IF ~ExtensionAdmits(path, exts) THEN "Extension"
    ELSE IF SizeAdmits(FileSize(path), max_size) THEN "Queue"
    ELSE "Size"

\* The SkippedFile pushed for an outcome; skip_reason is the message's kind.
Skipped(path, reason) ==
    [file_path |-> IF reason \in {"Enumeration", "PathEncoding"} THEN Unknown ELSE path,
     skip_reason |-> reason]

(***************************************************************************)
(* perform_search: the pattern search                                      *)
(***************************************************************************)

SetMin(S) == CHOOSE x \in S : \A y \in S : x <= y
SetMax(S) == CHOOSE x \in S : \A y \in S : x >= y

NoMatch == [pattern |-> 0, start |-> 0, end |-> 0]

\* Pattern k ends at offset end of the haystack and starts at or after pos.
EndsAt(haystack, pats, k, pos, end) ==
    /\ Len(pats[k]) <= end - pos
    /\ SubSeq(haystack, end - Len(pats[k]) + 1, end) = pats[k]

\* One search of the automaton (aho-corasick, MatchKind::Standard) started in
\* its start state at offset pos: the match that ends first; of the patterns
\* ending there the longest, and of equal patterns the first of the list.  An
\* empty pattern makes the start state a match state.  Pattern indices are
\* 1-based here, 0-based in the crate.
FindAt(haystack, pats, pos) ==
    LET empties == {k \in 1..Len(pats) : Len(pats[k]) = 0}
        ends == {e \in (pos + 1)..Len(haystack) :
                    \E k \in 1..Len(pats) : EndsAt(haystack, pats, k, pos, e)}
    IN  IF empties # {}
        THEN [pattern |-> SetMin(empties), start |-> pos, end |-> pos]
        ELSE IF ends = {} THEN NoMatch
        ELSE LET e == SetMin(ends)
                 here == {k \in 1..Len(pats) : EndsAt(haystack, pats, k, pos, e)}
                 longest == SetMax({Len(pats[k]) : k \in here})
                 k == SetMin({j \in here : Len(pats[j]) = longest})
             IN  [pattern |-> k, start |-> e - Len(pats[k]), end |-> e]

\* find_iter: the non-overlapping matches, each search resuming at the end of
\* the previous match (one byte further after an empty match).
RECURSIVE FindIterFrom(_, _, _)
FindIterFrom(haystack, pats, pos) ==
    IF pos > Len(haystack) THEN <<>>
    ELSE LET m == FindAt(haystack, pats, pos)
         IN  IF m = NoMatch THEN <<>>
             ELSE <<m>> \o FindIterFrom(haystack, pats,
                                        IF m.end = pos THEN pos + 1 ELSE m.end)

FindIter(haystack, pats) == FindIterFrom(haystack, pats, 0)

\* Vec::contains
Contains(seq, x) == \E i \in 1..Len(seq) : seq[i] = x

\* Variant of PushIfNew without the contains test.
PushIfNew_NoDedup(matched_patterns, pattern_as_string) ==
    Append(matched_patterns, pattern_as_string)

\* if !matched_patterns.contains(p) { matched_patterns.push(p.clone()) }
PushIfNew(matched_patterns, pattern_as_string) ==
    IF ~Contains(matched_patterns, pattern_as_string)
    THEN Append(matched_patterns, pattern_as_string)
    ELSE matched_patterns

\* The loop over find_iter that collects matched_patterns.
RECURSIVE CollectPatterns(_, _, _, _)
CollectPatterns(matches, pats, i, matched_patterns) ==
    IF i > Len(matches) THEN matched_patterns
    ELSE CollectPatterns(matches, pats, i + 1,
                         PushIfNew(matched_patterns, pats[matches[i].pattern]))

MatchedPatterns(file_contents, pats) ==
    CollectPatterns(FindIter(file_contents, pats), pats, 1, <<>>)

\* Variant of QueuedAt that walks the queue from its end.
QueuedAt_Reversed(queue, idx) == queue[Len(queue) - idx]

\* The queued file the scanning loop handles at iteration idx (0-based).
QueuedAt(queue, idx) == queue[idx + 1]

(***************************************************************************)
(* Inputs of the model                                                     *)
(***************************************************************************)

Prog  == <<"c", "s">>
DotRs == <<".", "r", "s">>
DotC  == <<".", "c">>
StrAb  == <<"a", "b">>
StrAbc == <<"a", "b", "c">>

\* The command lines main is run with.
CommandLines ==
    { <<Prog, ARG_SPT, StrAb, StrAbc>>,
      <<Prog, ARG_EXT, <<".", "r", "s", ":">>, ARG_MFS, <<"2">>, ARG_SPT, <<"c">>, <<"a">>, <<"c">>>>,
      <<Prog, ARG_SSK, ARG_SUM, ARG_DIR, <<"d", "/">>, ARG_MFQ, <<"+", "1">>, ARG_SPT, <<>>, StrAb>>,
      <<Prog, ARG_EXT, DotRs, ARG_SPT>>,
      <<Prog, ARG_MFQ, <<"1">>, ARG_EXT, <<".", "c", ":", ".", "r", "s">>>>,
      <<Prog, ARG_H>>,
      <<Prog, ARG_MFS, <<"x">>, ARG_SPT, StrAb>>,
      <<Prog, ARG_DIR, <<"[">>, ARG_SPT, StrAb>>,
      <<Prog, ARG_EXT, <<".", "c", ":", ".", "r", "s">>, ARG_SPT, StrAb>> }

\* The arguments perform_search is called with as a function.
Directories    == {<<".">>, <<"[">>}
ExtensionLists == {<<>>, <<DotRs>>, <<DotC, DotRs>>}
PatternLists   == {<<>>, <<StrAb, StrAbc>>, <<<<"c">>, <<"a">>, <<"c">>>>}
SizeLimits     == {0, 2}
CountLimits    == {0, 1}

(***************************************************************************)
(* The state machine                                                       *)
(***************************************************************************)

Init ==
    /\ pc = "start"
    /\ \/ caller = "main" /\ args \in CommandLines
       \/ caller = "direct" /\ args = <<>>
    /\ directory = <<>>
    /\ file_extensions = <<>>
    /\ patterns = <<>>
    /\ max_file_size = 0
    /\ max_files = 0
    /\ queued_files = <<>>
    /\ matched_files = <<>>
    /\ skipped_files = <<>>
    /\ unmatched_files = <<>>
    /\ index = 0
    /\ result = "none"
    /\ entries = <<>>
    /\ cut_off = FALSE
    /\ io_log = <<>>
    /\ automaton_builds = 0

\* perform_search up to the queueing loop: the empty results and queue, and
\* the glob set-up, whose failure is the function's only Err.
PerformSearchEntry(dir, exts, pats, max_size, limit) ==
    /\ directory' = dir
    /\ file_extensions' = exts
    /\ patterns' = pats
    /\ max_file_size' = max_size
    /\ max_files' = limit
    /\ queued_files' = <<>>
    /\ matched_files' = <<>>
    /\ skipped_files' = <<>>
    /\ unmatched_files' = <<>>
    /\ IF GlobOk(dir)
       THEN pc' = "queueing" /\ result' = "none"
       ELSE pc' = "done" /\ result' = "Err"
    /\ UNCHANGED <<caller, args, index, entries, cut_off, io_log, automaton_builds>>

\* main: the argument loop, then the call of perform_search when there is a
\* search pattern.  (What main prints is not part of the state.)
Main ==
    /\ pc = "start"
    /\ caller = "main"
    /\ LET cfg == ParseArgs(args)
       IN  IF cfg.status = "help" THEN pc' = "exit" /\ UNCHANGED <<caller, args, directory,
                  file_extensions, patterns, max_file_size, max_files, queued_files,
                  matched_files, skipped_files, unmatched_files, index, result, entries,
                  cut_off, io_log, automaton_builds>>
           ELSE IF cfg.status = "panic" THEN pc' = "panic" /\ UNCHANGED <<caller, args,
                  directory, file_extensions, patterns, max_file_size, max_files,
                  queued_files, matched_files, skipped_files, unmatched_files, index,
                  result, entries, cut_off, io_log, automaton_builds>>
           ELSE IF Len(cfg.search_patterns) > 0
           THEN PerformSearchEntry(cfg.target_directory, cfg.file_extensions,
                                   cfg.search_patterns, cfg.maximum_file_size,
                                   cfg.maximum_files_queued)
           ELSE pc' = "exit" /\ UNCHANGED <<caller, args, directory, file_extensions,
                  patterns, max_file_size, max_files, queued_files, matched_files,
                  skipped_files, unmatched_files, index, result, entries, cut_off,
                  io_log, automaton_builds>>

\* perform_search called as a function, with arguments of the caller's choice.
DirectCall ==
    /\ pc = "start"
    /\ caller = "direct"
    /\ \E dir \in Directories, exts \in ExtensionLists, pats \in PatternLists,
          max_size \in SizeLimits, limit \in CountLimits :
          PerformSearchEntry(dir, exts, pats, max_size, limit)

\* One iteration of the queueing loop, on the next item of the glob iterator.
QueueEntry ==
    /\ pc = "queueing"
    /\ Len(entries) < MaxEntries
    /\ \E e \in NextEntries(entries) :
         LET outcome == IF e.kind = "error" THEN "Enumeration"
                        ELSE IF e.kind # "file" THEN "NotFile"
                        ELSE FilterOutcome(e.path, e.metadata_ok, Len(queued_files),
                                           file_extensions, max_file_size, max_files)
         IN  /\ entries' = Append(entries, e)
             /\ queued_files' = IF outcome = "Queue" THEN Append(queued_files, e.path)
                                ELSE queued_files
             /\ skipped_files' =
                  IF outcome \in {"Enumeration", "PathEncoding", "Metadata", "Extension", "Size"}
                  THEN Append(skipped_files, Skipped(e.path, outcome))
                  ELSE skipped_files
             /\ cut_off' = (outcome = "Break")
             /\ pc' = IF outcome = "Break" THEN "scanning" ELSE "queueing"
    /\ UNCHANGED <<caller, args, directory, file_extensions, patterns, max_file_size,
                   max_files, matched_files, unmatched_files, index, result, io_log,
                   automaton_builds>>

\* The glob iterator is exhausted: the queueing loop ends.
QueueEnd ==
    /\ pc = "queueing"
    /\ pc' = "scanning"
    /\ UNCHANGED <<caller, args, directory, file_extensions, patterns, max_file_size,
                   max_files, queued_files, matched_files, skipped_files, unmatched_files,
                   index, result, entries, cut_off, io_log, automaton_builds>>

\* One iteration of the scanning loop: open and read the queued file, build
\* the automaton, collect the patterns found and record the file.
ScanFile ==
    /\ pc = "scanning"
    /\ index < Len(queued_files)
    /\ \E io \in {"open_error", "read_error", "ok"} :
         LET queued_file == QueuedAt(queued_files, index)
             matched_patterns == MatchedPatterns(FileContents(queued_file), patterns)
         IN  /\ io_log' = Append(io_log, [file_path |-> queued_file, io |-> io])
             /\ skipped_files' =
                  IF io = "open_error" THEN Append(skipped_files, Skipped(queued_file, "Open"))
                  ELSE IF io = "read_error" THEN Append(skipped_files, Skipped(queued_file, "Read"))
                  ELSE skipped_files
             /\ automaton_builds' = IF io = "ok" THEN automaton_builds + 1 ELSE automaton_builds
             /\ matched_files' =
                  IF io = "ok" /\ Len(matched_patterns) > 0
                  THEN Append(matched_files, [file_path |-> queued_file,
                                              matched_patterns |-> matched_patterns])
                  ELSE matched_files
             /\ unmatched_files' =
                  IF io = "ok" /\ ~(Len(matched_patterns) > 0)
                  THEN Append(unmatched_files, queued_file)
                  ELSE unmatched_files
    /\ index' = index + 1
    /\ UNCHANGED <<pc, caller, args, directory, file_extensions, patterns, max_file_size,
                   max_files, queued_files, result, entries, cut_off>>

\* return Ok(search_results)
Return ==
    /\ pc = "scanning"
    /\ index = Len(queued_files)
    /\ pc' = "done"
    /\ result' = "Ok"
    /\ UNCHANGED <<caller, args, directory, file_extensions, patterns, max_file_size,
                   max_files, queued_files, matched_files, skipped_files, unmatched_files,
                   index, entries, cut_off, io_log, automaton_builds>>

Next ==
    \/ Main
    \/ DirectCall
    \/ QueueEntry
    \/ QueueEnd
    \/ ScanFile
    \/ Return

Spec == Init /\ [][Next]_vars

(***************************************************************************)
(* Helpers of the properties                                               *)
(***************************************************************************)

\* The entries that are regular files the queueing loop classified: the file
\* at which the loop broke off is the last entry when cut_off holds.
ExaminedFiles ==
    {i \in 1..Len(entries) : entries[i].kind = "file" /\ ~(cut_off /\ i = Len(entries))}

\* The examined files that reached the extension and size rules.
FilteredFiles ==
    {i \in ExaminedFiles : ToStrOk(entries[i].path) /\ entries[i].metadata_ok}

MatchedPaths == [i \in 1..Len(matched_files) |-> matched_files[i].file_path]
SkippedPaths == [i \in 1..Len(skipped_files) |-> skipped_files[i].file_path]

Occurrences(seq, x) == Cardinality({i \in 1..Len(seq) : seq[i] = x})

SkippedFor(path, reason) ==
    \E i \in 1..Len(skipped_files) :
        skipped_files[i].file_path = path /\ skipped_files[i].skip_reason = reason

IsSuffix(suffix, s) ==
    /\ Len(suffix) <= Len(s)
    /\ \A i \in 1..Len(suffix) : suffix[i] = s[Len(s) - Len(suffix) + i]

\* s is a subsequence of t (t has no repeated element).
IsSubsequence(s, t) ==
    /\ \A i \in 1..Len(s) : \E j \in 1..Len(t) : t[j] = s[i]
    /\ \A i, j \in 1..Len(s) : i < j =>
          \E a, b \in 1..Len(t) : a < b /\ t[a] = s[i] /\ t[b] = s[j]

\* The pattern occurs somewhere in the bytes.
OccursIn(pattern, bytes) ==
    \E start \in 0..(Len(bytes) - Len(pattern)) :
        \A i \in 1..Len(pattern) : bytes[start + i] = pattern[i]

IoReasons == {"Open", "Read"}

(***************************************************************************)
(* Properties                                                              *)
(***************************************************************************)

\* C1: when perform_search returns Ok, every regular file the queueing loop
\* classified is recorded exactly once over matched_files, unmatched_files and
\* skipped_files (a file whose path is not UTF-8 by its "Unknown" record),
\* also when opening or reading a queued file failed.
C1_Partition ==
    (pc = "done" /\ result = "Ok") =>
        /\ \A i \in ExaminedFiles : ToStrOk(entries[i].path) =>
              Occurrences(MatchedPaths, entries[i].path)
                + Occurrences(unmatched_files, entries[i].path)
                + Occurrences(SkippedPaths, entries[i].path) = 1
        /\ Cardinality({i \in ExaminedFiles : ~ToStrOk(entries[i].path)})
             = Cardinality({i \in 1..Len(skipped_files) :
                               skipped_files[i].skip_reason = "PathEncoding"})

\* C1 witness: an Ok return with a filter-stage skip, an open failure and a match.
C1_Witness ==
    /\ pc = "done" /\ result = "Ok"
    /\ \E i \in 1..Len(skipped_files) : skipped_files[i].skip_reason = "Extension"
    /\ \E i \in 1..Len(skipped_files) : skipped_files[i].skip_reason = "Open"
    /\ Len(matched_files) > 0

\* C2: every pattern that occurs in the bytes of a scanned file is in that
\* file's matched_patterns, overlapping and nested occurrences included.
C2_AllOccurringPatternsReported ==
    \A i \in 1..Len(io_log) : io_log[i].io = "ok" =>
        \A k \in 1..Len(patterns) :
            OccursIn(patterns[k], FileContents(io_log[i].file_path)) =>
                \E m \in 1..Len(matched_files) :
                    /\ matched_files[m].file_path = io_log[i].file_path
                    /\ Contains(matched_files[m].matched_patterns, patterns[k])

\* C3: with a queue-count limit max_files > 0 the queue never holds more than
\* max_files files.
C3_QueueWithinLimit ==
    max_files > 0 => Len(queued_files) <= max_files

\* C4: the automaton is built exactly once, before the first queued file is
\* opened, and never again: whenever a queued file is opened the one automaton
\* exists already and the step builds no other.
C4_AutomatonBuiltOnce ==
    [][ Len(io_log') > Len(io_log) => (automaton_builds = 1 /\ automaton_builds' = 1) ]_vars

\* C5: perform_search called with an empty pattern list returns a failure and
\* scans no file; main without a pattern does not call perform_search.
C5_EmptyPatternsRejected ==
    /\ (pc = "done" /\ Len(patterns) = 0) => result = "Err"
    /\ (pc \in {"queueing", "scanning", "done"} /\ Len(patterns) = 0) =>
          (io_log = <<>> /\ unmatched_files = <<>>)
    /\ (caller = "main" /\ Len(ParseArgs(args).search_patterns) = 0) =>
          pc \in {"start", "exit", "panic"}

\* C6: max_file_size = 0 skips no file for its size; max_file_size = N > 0
\* skips, and never queues, every filtered file that passes the extension check
\* and is larger than N, and skips no file of size N or less for its size.
C6_SizeBoundary ==
    \A i \in FilteredFiles :
        LET path == entries[i].path
            size == Len(FileContents(path))
            ext_ok == Len(file_extensions) = 0
                        \/ \E k \in 1..Len(file_extensions) : IsSuffix(file_extensions[k], path)
        IN  /\ max_file_size = 0 => ~SkippedFor(path, "Size")
            /\ (max_file_size > 0 /\ ext_ok /\ size > max_file_size) =>
                  (SkippedFor(path, "Size") /\ ~Contains(queued_files, path))
            /\ (max_file_size > 0 /\ size <= max_file_size) => ~SkippedFor(path, "Size")

\* C6 witness: under the limit 2 a file of exactly 2 bytes was queued and a
\* larger one was skipped for its size.
C6_Witness ==
    /\ pc = "done"
    /\ max_file_size = 2
    /\ Contains(queued_files, PathB)
    /\ SkippedFor(PathA, "Size")

\* C7: an empty extension list skips no file for its extension; with a
\* non-empty list a file is queued only if its path ends with a listed suffix,
\* compared character by character with the dot, and every filtered file whose
\* path ends with none is skipped for its extension.
C7_ExtensionFilter ==
    \A i \in FilteredFiles :
        LET path == entries[i].path
            listed == \E k \in 1..Len(file_extensions) : IsSuffix(file_extensions[k], path)
        IN  /\ Len(file_extensions) = 0 => ~SkippedFor(path, "Extension")
            /\ (Len(file_extensions) > 0 /\ Contains(queued_files, path)) => listed
            /\ (Len(file_extensions) > 0 /\ ~listed) =>
                  (SkippedFor(path, "Extension") /\ ~Contains(queued_files, path))

\* C7 witness: with the list [".rs"], a.rs was queued and axrs was skipped for
\* its extension.
C7_Witness ==
    /\ pc = "done"
    /\ file_extensions = <<DotRs>>
    /\ Contains(queued_files, PathA)
    /\ SkippedFor(PathB, "Extension")

\* C8: no queued file is opened while the queueing loop runs; the files are
\* scanned in queue order; matched_files and unmatched_files are subsequences
\* of the queue, and in skipped_files every filter-stage skip precedes every
\* open/read skip, each group in processing order.
C8_StagedAndOrdered ==
    /\ pc = "queueing" =>
          (io_log = <<>> /\ index = 0 /\ matched_files = <<>> /\ unmatched_files = <<>>)
    /\ Len(io_log) = index
    /\ index <= Len(queued_files)
    /\ \A i \in 1..Len(io_log) : io_log[i].file_path = queued_files[i]
    /\ IsSubsequence(MatchedPaths, queued_files)
    /\ IsSubsequence(unmatched_files, queued_files)
    /\ \A i, j \in 1..Len(skipped_files) :
          (i < j /\ skipped_files[i].skip_reason \in IoReasons) =>
              skipped_files[j].skip_reason \in IoReasons
    /\ LET io_skips == SelectSeq(skipped_files, LAMBDA r : r.skip_reason \in IoReasons)
           filter_skips == SelectSeq(skipped_files,
                              LAMBDA r : r.skip_reason \in {"Metadata", "Extension", "Size"})
       IN  /\ IsSubsequence([i \in 1..Len(io_skips) |-> io_skips[i].file_path], queued_files)
           /\ IsSubsequence([i \in 1..Len(filter_skips) |-> filter_skips[i].file_path],
                            [i \in 1..Len(entries) |-> entries[i].path])

\* C8 witness: a finished run with two matched files and an unmatched one.
C8_Witness ==
    /\ pc = "done"
    /\ Len(matched_files) >= 2
    /\ Len(unmatched_files) >= 1

\* The rule that decides a regular file, by the order path encoding, metadata,
\* queue-count cutoff, extension, size; "full" is the cutoff's condition on the
\* queue as it is when the file is examined.
DecidingRule(e) ==
    LET full == max_files > 0 /\ Len(queued_files) > max_files
        listed == \E k \in 1..Len(file_extensions) : IsSuffix(file_extensions[k], e.path)
    IN  CASE \E i \in 1..Len(e.path) : e.path[i] = InvalidByte -> "PathEncoding"
          [] OTHER ->
        CASE ~e.metadata_ok -> "Metadata"
          [] OTHER ->
        CASE full -> "Cutoff"
          [] OTHER ->
        CASE Len(file_extensions) > 0 /\ ~listed -> "Extension"
          [] OTHER ->
        CASE max_file_size > 0 /\ Len(FileContents(e.path)) > max_file_size -> "Size"
          [] OTHER -> "None"

\* C9: each regular file gets the single outcome of the first rule that fails,
\* in the order path encoding, metadata, cutoff, extension, size; a path or
\* metadata failure is recorded also when the queue is full; and once the
\* cutoff fires the queueing loop neither queues nor skips anything more.
C9_FilterOrder ==
    [][ /\ (Len(entries') = Len(entries) + 1 /\ entries'[Len(entries')].kind = "file") =>
             LET e == entries'[Len(entries')]
                 rule == DecidingRule(e)
             IN  /\ rule = "Cutoff" =>
                       /\ cut_off' /\ pc' = "scanning"
                       /\ queued_files' = queued_files /\ skipped_files' = skipped_files
                 /\ rule = "None" =>
                       /\ queued_files' = Append(queued_files, e.path)
                       /\ skipped_files' = skipped_files /\ pc' = "queueing"
                 /\ rule \in {"PathEncoding", "Metadata", "Extension", "Size"} =>
                       /\ queued_files' = queued_files /\ pc' = "queueing"
                       /\ skipped_files' = Append(skipped_files,
                            [file_path |-> IF rule = "PathEncoding" THEN Unknown ELSE e.path,
                             skip_reason |-> rule])
        /\ cut_off =>
             /\ entries' = entries /\ queued_files' = queued_files
             /\ \A i \in 1..Len(skipped_files') :
                   i > Len(skipped_files) => skipped_files'[i].skip_reason \in IoReasons
      ]_vars

\* C9 witness: b.c fails the extension rule ([".rs"]) and the size rule
\* (4 bytes > 2) and is recorded once, for its extension.
C9_Witness ==
    /\ pc = "done"
    /\ file_extensions = <<DotRs>>
    /\ max_file_size = 2
    /\ Occurrences(SkippedPaths, PathC) = 1
    /\ SkippedFor(PathC, "Extension")

\* Start offset of the first match find_iter reports for the pattern string.
FirstReportedStart(matches, pats, pattern) ==
    SetMin({matches[i].start : i \in {j \in 1..Len(matches) : pats[matches[j].pattern] = pattern}})

\* C10: every MatchedFile has a non-empty matched_patterns whose elements are
\* patterns of the list, without repetition, in the order of the start offset
\* of their first reported occurrence; a scanned file is in unmatched_files
\* exactly when its scan reported no pattern.
C10_WellFormedPatternSets ==
    /\ \A m \in 1..Len(matched_files) :
          LET found == matched_files[m].matched_patterns
              matches == FindIter(FileContents(matched_files[m].file_path), patterns)
          IN  /\ Len(found) > 0
              /\ \A i \in 1..Len(found) : Contains(patterns, found[i])
              /\ \A i, j \in 1..Len(found) : i # j => found[i] # found[j]
              /\ \A i \in 1..Len(found) :
                    \E k \in 1..Len(matches) : patterns[matches[k].pattern] = found[i]
              /\ \A i, j \in 1..Len(found) : i < j =>
                    FirstReportedStart(matches, patterns, found[i])
                      < FirstReportedStart(matches, patterns, found[j])
    /\ \A i \in 1..Len(io_log) : io_log[i].io = "ok" =>
          LET reported == FindIter(FileContents(io_log[i].file_path), patterns) # <<>>
          IN  /\ Contains(unmatched_files, io_log[i].file_path) <=> ~reported
              /\ Contains(MatchedPaths, io_log[i].file_path) <=> reported
    /\ \A i \in 1..Len(unmatched_files) :
          \E k \in 1..Len(io_log) :
              io_log[k].io = "ok" /\ io_log[k].file_path = unmatched_files[i]

\* C10 witness: a.rs matched with ["a", "c"] under the list ["c", "a", "c"]:
\* offset order, not list order, and one entry for the repeated pattern.
C10_Witness ==
    /\ pc = "done"
    /\ patterns = << <<"c">>, <<"a">>, <<"c">> >>
    /\ \E m \in 1..Len(matched_files) :
          /\ matched_files[m].file_path = PathA
          /\ matched_files[m].matched_patterns = << <<"a">>, <<"c">> >>

====
